---------------------------- MODULE Spec2Model ----------------------------
(***************************************************************************)
(* A model of src/src/common/lib/client/baseclient.ts: the BaseClient      *)
(* constructor, BaseClient.time, BaseClient.request, the Channels registry *)
(* (get / release), and the collaborators these call (the HTTP layer with  *)
(* its fallback hosts, the space presence operations exercised by the      *)
(* tests at the end of the file).                                          *)
(*                                                                         *)
(* Four specifications share the variables:                                *)
(*   SpecChannels  Channels.get / Channels.release on one registry         *)
(*   SpecSpace     Space.enter / Space.leave of the members of a space     *)
(*   SpecCtor      new BaseClient(options, modules)                        *)
(*   Spec          time() and request() of two constructed clients, the    *)
(*                 HTTP attempts they wait for, and the clock              *)
(***************************************************************************)
EXTENDS Integers, Sequences, FiniteSets, Bags, TLC

VARIABLES
    all,              \* Channels.all: key (string) -> channel object id, or Undefined
    channel,          \* heap of Channel objects: id -> [name, channelOptions]
    chanLast,         \* the latest Channels call and what it returned
    handed,           \* key -> the object the latest get(key) returned since the last release(key)
    present,          \* space presence: member -> is the member in the space
    spaceLast,        \* the latest enter / leave call and the error its callback received
    ctor,             \* the latest `new BaseClient(options, modules)` and the instance it left
    currentFallback,  \* client -> BaseClient._currentFallback
    serverTimeOffset, \* client -> BaseClient.serverTimeOffset
    modules,          \* client -> the ModulesMap the client was constructed with
    now,              \* Utils.now()
    pending,          \* the bag of http.do calls in flight
    last              \* the latest step of Spec and its outcome

vars ==
    <<all, channel, chanLast, handed, present, spaceLast, ctor,
      currentFallback, serverTimeOffset, modules, now, pending, last>>

chanVars ==
    <<all, channel, chanLast, handed>>

spaceVars ==
    <<present, spaceLast>>

clientVars ==
    <<currentFallback, serverTimeOffset, modules, now, pending, last>>

\* JavaScript values are records tagged with their type.
Undefined ==
    [type |-> "undefined"]

Null ==
    [type |-> "null"]

Num(n) ==
    [type |-> "number", value |-> n]

\* A reference to the object with this id.
Obj(id) ==
    [type |-> "object", id |-> id]

(***************************************************************************)
(* Channels (baseclient.ts 244-270)                                        *)
(***************************************************************************)

\* The most Channel objects one run allocates.
MaxChannels ==
    3

\* The values a caller passes as `name`: strings, and the non-strings of the
\* tests (false, null, an object).
NameInputs ==
    { [type |-> "string", str |-> "a"],
      [type |-> "string", str |-> ""],
      [type |-> "string", str |-> "false"],
      [type |-> "boolean", bool |-> FALSE],
      Null,
      Obj(0) }

\* channelOptions: absent, or an options object.
ChannelOptionInputs ==
    { Undefined, Obj(1) }

\* String(name) of JavaScript.
JsString(v) ==
    CASE v.type = "string" -> v.str
      [] v.type = "boolean" -> (IF v.bool THEN "true" ELSE "false")
      [] v.type = "null" -> "null"
      [] v.type = "object" -> "[object Object]"

\* The keys Channels.all can hold in this model.
Keys ==
    { JsString(v) : v \in NameInputs }

ChannelIds ==
    1 .. MaxChannels

\* new Channel(client, name, channelOptions): the next unused object id.
NewChannelId ==
    Len(channel) + 1

\* A get that registers a new channel whatever the registry holds.
getAlwaysCreates(name, channelOptions) ==
    LET key == JsString(name)
        id == NewChannelId
    IN  /\ id \in ChannelIds
        /\ channel' = Append(channel, [name |-> key, options |-> channelOptions])
        /\ all' = [all EXCEPT ![key] = Obj(id)]
        /\ handed' = [handed EXCEPT ![key] = Obj(id)]
        /\ chanLast' = [op |-> "get", name |-> name, key |-> key, returned |-> Obj(id),
                        created |-> TRUE, threw |-> FALSE]

\* Channels.get(name, channelOptions)
get(name, channelOptions) ==
    LET key == JsString(name)
        found == all[key]
    IN  IF found = Undefined
        THEN LET id == NewChannelId
             IN  /\ id \in ChannelIds
                 /\ channel' = Append(channel, [name |-> key, options |-> channelOptions])
                 /\ all' = [all EXCEPT ![key] = Obj(id)]
                 /\ handed' = [handed EXCEPT ![key] = Obj(id)]
                 /\ chanLast' = [op |-> "get", name |-> name, key |-> key, returned |-> Obj(id),
                                 created |-> TRUE, threw |-> FALSE]
        ELSE /\ channel' = IF channelOptions # Undefined
                           THEN [channel EXCEPT ![found.id].options = channelOptions]
                           ELSE channel
             /\ all' = all
             /\ handed' = [handed EXCEPT ![key] = found]
             /\ chanLast' = [op |-> "get", name |-> name, key |-> key, returned |-> found,
                             created |-> FALSE, threw |-> FALSE]

\* A release that empties the whole registry.
releaseAll(name) ==
    LET key == JsString(name)
    IN  /\ all' = [k \in Keys |-> Undefined]
        /\ handed' = [k \in Keys |-> Undefined]
        /\ channel' = channel
        /\ chanLast' = [op |-> "release", name |-> name, key |-> key, returned |-> Undefined,
                        created |-> FALSE, threw |-> FALSE]

\* Channels.release(name)
release(name) ==
    LET key == JsString(name)
    IN  /\ all' = [all EXCEPT ![key] = Undefined]
        /\ handed' = [handed EXCEPT ![key] = Undefined]
        /\ channel' = channel
        /\ chanLast' = [op |-> "release", name |-> name, key |-> key, returned |-> Undefined,
                        created |-> FALSE, threw |-> FALSE]

\* new Channels(client): an empty registry.
ChannelsInit ==
    /\ all = [k \in Keys |-> Undefined]
    /\ channel = <<>>
    /\ handed = [k \in Keys |-> Undefined]
    /\ chanLast = [op |-> "new", name |-> Undefined, key |-> "", returned |-> Undefined,
                   created |-> FALSE, threw |-> FALSE]

(***************************************************************************)
(* Space presence: enter / leave (tests, baseclient.ts 389-483; spec 4.3)  *)
(***************************************************************************)

Members ==
    { "m1", "m2", "m3" }

\* The presence data a member enters with.
DataInputs ==
    { Obj(1), Obj(2) }

AlreadyEntered ==
    [type |-> "error", message |-> "Client has already entered the space"]

NotPresent ==
    [type |-> "error", message |-> "Member not present in space, leave operation redundant"]

\* An enter that never refuses.
enterNoCheck(m, data) ==
    /\ present' = [present EXCEPT ![m] = data]
    /\ spaceLast' = [op |-> "enter", member |-> m, err |-> Undefined]

\* space.enter(data, callback) by member m
enter(m, data) ==
    IF present[m] # Undefined
    THEN /\ present' = present
         /\ spaceLast' = [op |-> "enter", member |-> m, err |-> AlreadyEntered]
    ELSE /\ present' = [present EXCEPT ![m] = data]
         /\ spaceLast' = [op |-> "enter", member |-> m, err |-> Undefined]

\* space.leave(callback) by member m
leave(m) ==
    IF present[m] = Undefined
    THEN /\ present' = present
         /\ spaceLast' = [op |-> "leave", member |-> m, err |-> NotPresent]
    ELSE /\ present' = [present EXCEPT ![m] = Undefined]
         /\ spaceLast' = [op |-> "leave", member |-> m, err |-> Undefined]

\* spaces.get(name): a space nobody has entered.
SpaceInit ==
    /\ present = [m \in Members |-> Undefined]
    /\ spaceLast = [op |-> "get", member |-> "m1", err |-> Undefined]

(***************************************************************************)
(* new BaseClient(options, modules) (baseclient.ts 38-91)                  *)
(***************************************************************************)

\* The longest key option, in characters.
MaxKeyLen ==
    3

\* The characters of a key: an ordinary one, the separator, a dot, and a
\* whitespace character.
KeyChars ==
    { "a", ":", ".", " " }

Whitespace ==
    { " " }

RECURSIVE StringsUpTo(_)
\* Every string of at most n characters.
StringsUpTo(n) ==
    IF n = 0
    THEN { [type |-> "string", chars |-> <<>>] }
    ELSE LET shorter == StringsUpTo(n - 1)
         IN  shorter \cup { [type |-> "string", chars |-> Append(s.chars, c)] :
                              s \in shorter, c \in KeyChars }

\* options.key: absent, or a string.
KeyInputs ==
    { Undefined } \cup StringsUpTo(MaxKeyLen)

\* options.clientId: the property is absent, or present with one of these values.
ClientIdInputs ==
    { [has |-> FALSE],
      [has |-> TRUE, value |-> Undefined],
      [has |-> TRUE, value |-> Null],
      [has |-> TRUE, value |-> Num(7)],
      [has |-> TRUE, value |-> [type |-> "string", str |-> "*"]],
      [has |-> TRUE, value |-> [type |-> "string", str |-> ""]],
      [has |-> TRUE, value |-> [type |-> "string", str |-> "me"]] }

\* The options argument: nothing, or an options object.
OptionInputs ==
    { Undefined } \cup [type : { "object" }, key : KeyInputs, clientId : ClientIdInputs]

ModulesInputs ==
    { {}, { "Rest" } }

\* key.match(/^([^:\s]+):([^:.\s]+)$/): the match, or null.
KeyMatch(key) ==
    LET s == key.chars
        n == Len(s)
        cuts == { i \in 1 .. n :
                    /\ s[i] = ":"
                    /\ i > 1
                    /\ i < n
                    /\ \A j \in 1 .. (i - 1) : s[j] \notin ({ ":" } \cup Whitespace)
                    /\ \A j \in (i + 1) .. n : s[j] \notin ({ ":", "." } \cup Whitespace) }
    IN  IF cuts = {}
        THEN Null
        ELSE LET i == CHOOSE i \in cuts : TRUE
             IN  [type |-> "match",
                  group1 |-> [type |-> "string", chars |-> SubSeq(s, 1, i - 1)],
                  group2 |-> [type |-> "string", chars |-> SubSeq(s, i + 1, n)]]

\* new ErrorInfo(message, code, statusCode), the message left out.
ErrorInfo(code, statusCode) ==
    [type |-> "ErrorInfo", code |-> code, statusCode |-> statusCode]

NoOptionsError ==
    [type |-> "Error", message |-> "no options provided"]

InvalidKeyError ==
    ErrorInfo(40400, 404)

ClientIdError ==
    ErrorInfo(40012, 400)

\* The empty string.
EmptyString ==
    [type |-> "string", chars |-> <<>>]

\* `if (normalOptions.key)`: neither absent nor the empty string.
Truthy(key) ==
    key # Undefined /\ key # EmptyString

\* An instance no constructor statement has touched.
BlankInstance ==
    [threw |-> Undefined, keyName |-> Undefined, keySecret |-> Undefined,
     currentFallback |-> Undefined, serverTimeOffset |-> Undefined,
     http |-> FALSE, auth |-> FALSE, channels |-> FALSE, push |-> FALSE]

\* The clientId checks of lines 71-80: the error thrown, or Undefined.
ClientIdCheck(clientId) ==
    IF ~clientId.has
    THEN Undefined
    ELSE IF ~(clientId.value.type = "string" \/ clientId.value = Null)
         THEN ClientIdError
         ELSE IF clientId.value = [type |-> "string", str |-> "*"]
              THEN ClientIdError
              ELSE Undefined

\* A constructor that takes the key apart without checking its form.
BaseClientNoKeyCheck(options, mods) ==
    IF options = Undefined
    THEN [BlankInstance EXCEPT !.threw = NoOptionsError]
    ELSE LET s == IF Truthy(options.key) THEN options.key.chars ELSE <<>>
             cut == IF \E i \in 1 .. Len(s) : s[i] = ":"
                    THEN CHOOSE i \in 1 .. Len(s) : s[i] = ":"
                    ELSE Len(s) + 1
             keyed == IF ~Truthy(options.key)
                      THEN BlankInstance
                      ELSE [BlankInstance EXCEPT
                              !.keyName = [type |-> "string", chars |-> SubSeq(s, 1, cut - 1)],
                              !.keySecret = [type |-> "string",
                                             chars |-> SubSeq(s, cut + 1, Len(s))]]
         IN  IF ClientIdCheck(options.clientId) # Undefined
             THEN [keyed EXCEPT !.threw = ClientIdCheck(options.clientId)]
             ELSE [keyed EXCEPT !.currentFallback = Null, !.serverTimeOffset = Null,
                                !.http = TRUE, !.auth = TRUE, !.channels = TRUE,
                                !.push = TRUE]

\* new BaseClient(options, modules): the instance the constructor leaves,
\* with the error it threw in `threw`.
BaseClient(options, mods) ==
    IF options = Undefined
    THEN [BlankInstance EXCEPT !.threw = NoOptionsError]
    ELSE LET hasKey == Truthy(options.key)
             keyMatch == IF hasKey THEN KeyMatch(options.key) ELSE Null
         IN  IF hasKey /\ keyMatch = Null
             THEN [BlankInstance EXCEPT !.threw = InvalidKeyError]
             ELSE LET keyed == IF hasKey
                               THEN [BlankInstance EXCEPT !.keyName = keyMatch.group1,
                                                          !.keySecret = keyMatch.group2]
                               ELSE BlankInstance
                  IN  IF ClientIdCheck(options.clientId) # Undefined
                      THEN [keyed EXCEPT !.threw = ClientIdCheck(options.clientId)]
                      ELSE [keyed EXCEPT !.currentFallback = Null,
                                         !.serverTimeOffset = Null,
                                         !.http = TRUE, !.auth = TRUE,
                                         !.channels = TRUE, !.push = TRUE]

\* One `new BaseClient(options, modules)` expression.
Construct(options, mods) ==
    /\ ~ctor.called
    /\ ctor' = [called |-> TRUE, options |-> options, modules |-> mods,
                instance |-> BaseClient(options, mods)]

\* Before any client is constructed.
CtorInit ==
    ctor = [called |-> FALSE, options |-> Undefined, modules |-> {},
            instance |-> BlankInstance]

(***************************************************************************)
(* The HTTP layer: http.do with fallback hosts (spec 4.4; the field        *)
(* BaseClient._currentFallback, baseclient.ts 28-31)                       *)
(***************************************************************************)

Clients ==
    { "c1", "c2" }

\* The primary host and the two fallback hosts, in the order they are tried.
Hosts ==
    <<"primary", "fallback1", "fallback2">>

\* One client alone: the last value of the clock, and the most http.do calls
\* in flight at once.
MaxTime ==
    2

MaxPending ==
    2

\* Two clients side by side: the same two bounds.
MaxClock ==
    1

MaxOverlap ==
    1

\* The cool-down window of a stored fallback host, in clock ticks.
FallbackRetryTimeout ==
    1

\* A network error, a 5xx or a timeout: the request may go to another host.
RetryableError ==
    [type |-> "ErrnoException", retryable |-> TRUE]

\* A 4xx: no other host is tried.
RequestError ==
    [type |-> "ErrorInfo", code |-> 40100, statusCode |-> 401]

\* A stored fallback host.
Fallback(host, validUntil) ==
    [type |-> "object", host |-> host, validUntil |-> validUntil]

\* An http.do that starts from the primary host whatever is stored.
httpDoFromTheTop(fallback, clock) ==
    [fallback |-> fallback, host |-> Head(Hosts), rest |-> Tail(Hosts),
     stored |-> FALSE, persist |-> FALSE]

\* The first attempt of http.do: the stored fallback host while it is valid,
\* otherwise (the stored host dropped) the hosts in order.
httpDo(fallback, clock) ==
    IF fallback # Null /\ fallback.validUntil > clock
    THEN [fallback |-> fallback, host |-> fallback.host, rest |-> <<>>,
          stored |-> TRUE, persist |-> FALSE]
    ELSE [fallback |-> Null, host |-> Head(Hosts), rest |-> Tail(Hosts),
          stored |-> FALSE, persist |-> FALSE]

\* The call the first attempt of http.do leaves in flight.
NewCall(c, kind, start) ==
    [type |-> "call", client |-> c, kind |-> kind, host |-> start.host,
     rest |-> start.rest, stored |-> start.stored, persist |-> start.persist]

\* The response to one attempt: what http.do does next. `final` says whether
\* the caller's callback runs; `fallback` is the client's stored fallback
\* afterwards; `call` is the call still in flight.
onAttempt(call, fallback, clock, resp) ==
    LET retry == resp.err = RetryableError
    IN  IF call.stored /\ retry
        THEN [final |-> FALSE, fallback |-> Null,
              call |-> NewCall(call.client, call.kind, httpDo(Null, clock))]
        ELSE IF ~call.stored /\ retry /\ call.rest # <<>>
             THEN [final |-> FALSE, fallback |-> fallback,
                   call |-> [call EXCEPT !.host = Head(call.rest), !.rest = Tail(call.rest),
                                         !.persist = TRUE]]
             ELSE [final |-> TRUE,
                   fallback |-> IF call.persist /\ resp.err = Null
                                THEN Fallback(call.host, clock + FallbackRetryTimeout)
                                ELSE fallback,
                   call |-> Undefined]

(***************************************************************************)
(* BaseClient.time (baseclient.ts 127-173)                                 *)
(***************************************************************************)

\* The times the server reports; 0 stands for a falsy time value.
ServerTimes ==
    { 0, 1 }

DigitChars ==
    <<"0", "1", "2", "3", "4", "5", "6", "7", "8", "9">>

\* The text of a number below ten.
Digit(n) ==
    DigitChars[n + 1]

\* An array value.
Array(items) ==
    [type |-> "array", items |-> items]

\* A response body as text, one character per element.
Text(chars) ==
    [type |-> "string", chars |-> chars]

\* JSON.parse(text): the value, or the SyntaxError it throws.
JSONParse(text) ==
    LET s == text.chars
    IN  IF s = <<"[", "]">>
        THEN [ok |-> TRUE, value |-> Array(<<>>)]
        ELSE IF Len(s) = 3 /\ s[1] = "[" /\ s[3] = "]"
                /\ \E n \in 0 .. 9 : Digit(n) = s[2]
             THEN [ok |-> TRUE,
                   value |-> Array(<<CHOOSE n \in 0 .. 9 : Digit(n) = s[2]>>)]
             ELSE IF s = <<"n", "u", "l", "l">>
                  THEN [ok |-> TRUE, value |-> Null]
                  ELSE [ok |-> FALSE, value |-> [type |-> "SyntaxError"]]

\* What the HTTP layer hands the callback of a GET /time: an error, or a
\* body, already unpacked or still text.
TimeResponses ==
    { [err |-> RetryableError], [err |-> RequestError] }
      \cup { [err |-> Null, unpacked |-> TRUE, res |-> Array(<<t>>)] : t \in ServerTimes }
      \cup { [err |-> Null, unpacked |-> TRUE, res |-> Array(<<>>)] }
      \cup { [err |-> Null, unpacked |-> FALSE, res |-> Text(<<"[", Digit(t), "]">>)] :
                t \in ServerTimes }
      \cup { [err |-> Null, unpacked |-> FALSE, res |-> Text(<<"[", "]">>)],
              [err |-> Null, unpacked |-> FALSE, res |-> Text(<<"n", "u", "l", "l">>)],
              [err |-> Null, unpacked |-> FALSE, res |-> Text(<<"<">>)] }

InternalError ==
    ErrorInfo(50000, 500)

\* What the callback of http.do in time() does with a response: how often it
\* calls _callback and with what, the exception it lets escape, and
\* serverTimeOffset afterwards.
Outcome(callbacks, cbErr, cbVal, exc, offset) ==
    [callbacks |-> callbacks, cbErr |-> cbErr, cbVal |-> cbVal, exc |-> exc,
     offset |-> offset]

\* The callback of http.do in time(), lines 152-171.
onTime(offset, clock, resp) ==
    IF resp.err # Null
    THEN Outcome(1, resp.err, Undefined, Undefined, offset)
    ELSE LET parsed == IF resp.unpacked
                       THEN [ok |-> TRUE, value |-> resp.res]
                       ELSE JSONParse(resp.res)
         IN  IF ~parsed.ok
             THEN Outcome(0, Undefined, Undefined, parsed.value, offset)
             ELSE IF parsed.value = Null
                  THEN Outcome(0, Undefined, Undefined, [type |-> "TypeError"], offset)
                  ELSE LET items == parsed.value.items
                       IN  IF Len(items) = 0 \/ items[1] = 0
                           THEN Outcome(1, InternalError, Undefined, Undefined, offset)
                           ELSE Outcome(1, Null, Num(items[1]), Undefined,
                                        Num(items[1] - clock))

(***************************************************************************)
(* BaseClient.request (baseclient.ts 175-232)                              *)
(***************************************************************************)

\* The `method` arguments tried.
MethodInputs ==
    { "get", "POST", "head", "TRACE" }

\* method.toLowerCase()
toLowerCase(method) ==
    CASE method = "POST" -> "post"
      [] method = "TRACE" -> "trace"
      [] OTHER -> method

\* Platform.Http.methods
Methods ==
    { "get", "delete", "post", "put", "patch" }

\* What the HTTP layer answers a request with.
RequestResponses ==
    { [err |-> RetryableError], [err |-> RequestError],
      [err |-> Null, unpacked |-> TRUE, res |-> Array(<<>>)] }

\* The callback PaginatedResource gives http.do: the error, or the page.
onRequest(resp) ==
    IF resp.err # Null
    THEN Outcome(1, resp.err, Undefined, Undefined, Undefined)
    ELSE Outcome(1, Null, [type |-> "HttpPaginatedResponse", items |-> resp.res],
                 Undefined, Undefined)

(***************************************************************************)
(* The steps of the clients                                                *)
(***************************************************************************)

\* The record of a step: the operation, the client it was called on and what
\* came of it. `threw` is the error a call threw (or rejected its promise
\* with), `resp` the response a finished call got, `out` what the caller's
\* callback saw of it.
NoEvent ==
    [op |-> "new", client |-> "", method |-> "", threw |-> Undefined,
     resp |-> Undefined, out |-> Undefined]

\* The calls in flight.
InFlight ==
    BagCardinality(pending)

\* http.do(method, client, path, ...) by client c: the first attempt goes out.
Dispatch(c, kind) ==
    LET start == httpDo(currentFallback[c], now)
    IN  /\ pending' = pending (+) SetToBag({ NewCall(c, kind, start) })
        /\ currentFallback' = [currentFallback EXCEPT ![c] = start.fallback]

\* client.time(callback)
time(c) ==
    /\ Dispatch(c, "time")
    /\ last' = [NoEvent EXCEPT !.op = "time", !.client = c]
    /\ UNCHANGED <<serverTimeOffset, modules, now>>

\* The check of lines 220-222: the error thrown, or Undefined.
MethodCheck(method) ==
    IF toLowerCase(method) \notin Methods
    THEN ErrorInfo(40500, 405)
    ELSE Undefined

\* A request that hands the call to the HTTP layer before it checks the method.
requestChecksLate(c, method) ==
    /\ Dispatch(c, "request")
    /\ last' = [NoEvent EXCEPT !.op = "request", !.client = c, !.method = method,
                               !.threw = MethodCheck(method)]
    /\ UNCHANGED <<serverTimeOffset, modules, now>>

\* client.request(method, path, version, params, body, customHeaders, callback)
request(c, method) ==
    IF MethodCheck(method) # Undefined
    THEN /\ last' = [NoEvent EXCEPT !.op = "request", !.client = c, !.method = method,
                                    !.threw = MethodCheck(method)]
         /\ UNCHANGED <<currentFallback, serverTimeOffset, modules, now, pending>>
    ELSE /\ Dispatch(c, "request")
         /\ last' = [NoEvent EXCEPT !.op = "request", !.client = c, !.method = method]
         /\ UNCHANGED <<serverTimeOffset, modules, now>>

\* The responses the HTTP layer can give a call.
Responses(call) ==
    IF call.kind = "time" THEN TimeResponses ELSE RequestResponses

\* What the caller's callback sees of the last response to a call.
Deliver(call, resp) ==
    IF call.kind = "time"
    THEN onTime(serverTimeOffset[call.client], now, resp)
    ELSE onRequest(resp)

\* A response whose time offset lands on every client, as a value kept on the
\* prototype would.
responseOnPrototype(call, resp) ==
    /\ BagIn(call, pending)
    /\ resp \in Responses(call)
    /\ LET c == call.client
           step == onAttempt(call, currentFallback[c], now, resp)
           out == Deliver(call, resp)
       IN  /\ currentFallback' = [currentFallback EXCEPT ![c] = step.fallback]
           /\ IF step.final
              THEN /\ pending' = pending (-) SetToBag({ call })
                   /\ serverTimeOffset' =
                        IF call.kind = "time"
                        THEN [d \in Clients |-> out.offset]
                        ELSE serverTimeOffset
                   /\ last' = [NoEvent EXCEPT
                                 !.op = IF call.kind = "time" THEN "timeDone"
                                                              ELSE "requestDone",
                                 !.client = c, !.resp = resp, !.out = out]
              ELSE /\ pending' = (pending (-) SetToBag({ call })) (+) SetToBag({ step.call })
                   /\ serverTimeOffset' = serverTimeOffset
                   /\ last' = [NoEvent EXCEPT !.op = "attempt", !.client = c,
                                              !.resp = resp]
    /\ UNCHANGED <<modules, now>>

\* One attempt of a call in flight gets its response.
response(call, resp) ==
    /\ BagIn(call, pending)
    /\ resp \in Responses(call)
    /\ LET c == call.client
           step == onAttempt(call, currentFallback[c], now, resp)
           out == Deliver(call, resp)
       IN  /\ currentFallback' = [currentFallback EXCEPT ![c] = step.fallback]
           /\ IF step.final
              THEN /\ pending' = pending (-) SetToBag({ call })
                   /\ serverTimeOffset' =
                        IF call.kind = "time"
                        THEN [serverTimeOffset EXCEPT ![c] = out.offset]
                        ELSE serverTimeOffset
                   /\ last' = [NoEvent EXCEPT
                                 !.op = IF call.kind = "time" THEN "timeDone"
                                                              ELSE "requestDone",
                                 !.client = c, !.resp = resp, !.out = out]
              ELSE /\ pending' = (pending (-) SetToBag({ call })) (+) SetToBag({ step.call })
                   /\ serverTimeOffset' = serverTimeOffset
                   /\ last' = [NoEvent EXCEPT !.op = "attempt", !.client = c,
                                              !.resp = resp]
    /\ UNCHANGED <<modules, now>>

\* The clock advances.
Tick ==
    /\ now' = now + 1
    /\ last' = [NoEvent EXCEPT !.op = "tick"]
    /\ UNCHANGED <<currentFallback, serverTimeOffset, modules, pending>>

\* The options the clients are constructed with.
PlainOptions ==
    [type |-> "object", key |-> Undefined, clientId |-> [has |-> FALSE]]

\* The modules each client is constructed with: one without Rest, one with.
ModulesOf(c) ==
    IF c = "c1" THEN {} ELSE { "Rest" }

\* Two clients, just constructed.
ClientInit ==
    /\ currentFallback = [c \in Clients |-> BaseClient(PlainOptions, ModulesOf(c)).currentFallback]
    /\ serverTimeOffset = [c \in Clients |-> BaseClient(PlainOptions, ModulesOf(c)).serverTimeOffset]
    /\ modules = [c \in Clients |-> ModulesOf(c)]
    /\ now = 0
    /\ pending = EmptyBag
    /\ last = NoEvent

(***************************************************************************)
(* Specifications                                                          *)
(***************************************************************************)

Init ==
    /\ ChannelsInit
    /\ SpaceInit
    /\ CtorInit
    /\ ClientInit

Get ==
    /\ \E name \in NameInputs, channelOptions \in ChannelOptionInputs :
          get(name, channelOptions)
    /\ UNCHANGED <<spaceVars, ctor, clientVars>>

Release ==
    /\ \E name \in NameInputs : release(name)
    /\ UNCHANGED <<spaceVars, ctor, clientVars>>

ChannelsNext ==
    Get \/ Release

SpecChannels ==
    Init /\ [][ChannelsNext]_vars

Enter ==
    /\ \E m \in Members, data \in DataInputs : enter(m, data)
    /\ UNCHANGED <<chanVars, ctor, clientVars>>

Leave ==
    /\ \E m \in Members : leave(m)
    /\ UNCHANGED <<chanVars, ctor, clientVars>>

SpaceNext ==
    Enter \/ Leave

SpecSpace ==
    Init /\ [][SpaceNext]_vars

New ==
    /\ \E options \in OptionInputs, mods \in ModulesInputs : Construct(options, mods)
    /\ UNCHANGED <<chanVars, spaceVars, clientVars>>

CtorNext ==
    New

SpecCtor ==
    Init /\ [][CtorNext]_vars

\* The client of Spec: the one constructed with Rest.
Client ==
    "c2"

Time ==
    /\ time(Client)
    /\ InFlight' <= MaxPending
    /\ UNCHANGED <<chanVars, spaceVars, ctor>>

Request ==
    /\ \E method \in MethodInputs : request(Client, method)
    /\ InFlight' <= MaxPending
    /\ UNCHANGED <<chanVars, spaceVars, ctor>>

Response ==
    /\ \E call \in BagToSet(pending), resp \in TimeResponses \cup RequestResponses :
          response(call, resp)
    /\ UNCHANGED <<chanVars, spaceVars, ctor>>

Clock ==
    /\ Tick
    /\ now' <= MaxTime
    /\ UNCHANGED <<chanVars, spaceVars, ctor>>

Next ==
    Time \/ Request \/ Response \/ Clock

Spec ==
    Init /\ [][Next]_vars

TimeOfEither ==
    /\ \E c \in Clients : time(c)
    /\ InFlight' <= MaxOverlap
    /\ UNCHANGED <<chanVars, spaceVars, ctor>>

RequestOfEither ==
    /\ \E c \in Clients, method \in MethodInputs : request(c, method)
    /\ InFlight' <= MaxOverlap
    /\ UNCHANGED <<chanVars, spaceVars, ctor>>

ClockOfBoth ==
    /\ Tick
    /\ now' <= MaxClock
    /\ UNCHANGED <<chanVars, spaceVars, ctor>>

ClientsNext ==
    TimeOfEither \/ RequestOfEither \/ Response \/ ClockOfBoth

SpecClients ==
    Init /\ [][ClientsNext]_vars

(***************************************************************************)
(* Claims about Channels, checked under SpecChannels                       *)
(***************************************************************************)

\* The registered names.
Registered ==
    { k \in Keys : all[k] # Undefined }

\* C1: the registry holds at most one channel per name - every registered
\* object is registered under its own name and under no other - and a get
\* creates and registers a channel only when none is registered under
\* String(name): otherwise it returns the registered object and registers
\* nothing, so that a get returns the object the previous get of the same
\* name returned unless the name was released in between.
C1_OneChannelPerName ==
    [][ /\ \A k \in Keys :
             all'[k] # Undefined =>
               /\ all'[k].id \in 1 .. Len(channel')
               /\ channel'[all'[k].id].name = k
               /\ \A j \in Keys : all'[j] = all'[k] => j = k
        /\ chanLast'.op = "get" =>
             LET key == JsString(chanLast'.name)
                 returned == chanLast'.returned
             IN  /\ all'[key] = returned
                 /\ all[key] # Undefined =>
                      /\ returned = all[key]
                      /\ all' = all
                      /\ Len(channel') = Len(channel)
                 /\ all[key] = Undefined =>
                      /\ returned.id \notin 1 .. Len(channel)
                      /\ all' = [all EXCEPT ![key] = returned]
                 /\ handed[key] # Undefined => returned = handed[key]
      ]_vars

\* C1 witness: a second get of a registered name has returned the registered
\* object, after some other name was registered too.
C1_Witness ==
    /\ chanLast.op = "get"
    /\ ~chanLast.created
    /\ chanLast.returned = all[chanLast.key]
    /\ Cardinality(Registered) >= 2

\* The names the tests call invalid: the empty string and the non-strings.
InvalidName(name) ==
    name.type # "string" \/ name.str = ""

\* C6: a get with an invalid name (the empty string, false, null, an object)
\* throws and registers nothing.
C6_InvalidNameThrows ==
    (chanLast.op = "get" /\ InvalidName(chanLast.name)) =>
        (chanLast.threw /\ ~chanLast.created /\ all[chanLast.key] = Undefined)

\* The Channel objects created so far that no name is registered to.
Unregistered ==
    { i \in 1 .. Len(channel) : \A k \in Keys : all[k] # Obj(i) }

\* C11: release(name) removes only the entry registered under String(name)
\* and leaves every other entry and every Channel object as it was, so that
\* releasing a name that is not registered changes nothing; the first get of
\* a name after its release creates a new channel, registered under that
\* name, that is none of the objects created before; and an object that is
\* no longer registered - the released one - is never registered again.
C11_ReleaseOnlyThatName ==
    [][ /\ chanLast'.op = "release" =>
             LET key == JsString(chanLast'.name)
             IN  /\ all'[key] = Undefined
                 /\ \A k \in Keys \ { key } : all'[k] = all[k]
                 /\ channel' = channel
                 /\ all[key] = Undefined => all' = all
        /\ (chanLast'.op = "get" /\ all[JsString(chanLast'.name)] = Undefined) =>
             LET key == JsString(chanLast'.name)
                 returned == chanLast'.returned
             IN  /\ returned.type = "object"
                 /\ returned.id \notin 1 .. Len(channel)
                 /\ returned.id \in 1 .. Len(channel')
                 /\ channel'[returned.id].name = key
                 /\ all'[key] = returned
        /\ \A i \in Unregistered : \A k \in Keys : all'[k] # Obj(i)
      ]_vars

\* C11 witness: a name was registered, released while another name stayed
\* registered, and got again: the get created a second object of that name.
C11_Witness ==
    /\ chanLast.op = "get"
    /\ chanLast.created
    /\ \E i \in Unregistered :
          /\ channel[i].name = chanLast.key
          /\ i < chanLast.returned.id
    /\ Cardinality(Registered) >= 2

(***************************************************************************)
(* Claims about space presence, checked under SpecSpace                    *)
(***************************************************************************)

\* C2: an enter by a member who is already present fails with the
\* duplicate-entry error, a leave by a member who is not present fails with
\* the not-present error, and neither changes anybody's presence.
C2_EnterLeavePreconditions ==
    [][ \A m \in Members :
          /\ (spaceLast'.op = "enter" /\ spaceLast'.member = m /\ present[m] # Undefined) =>
                (spaceLast'.err = AlreadyEntered /\ present' = present)
          /\ (spaceLast'.op = "leave" /\ spaceLast'.member = m /\ present[m] = Undefined) =>
                (spaceLast'.err = NotPresent /\ present' = present)
      ]_vars

\* C2 witness: a member who entered and did not leave has been refused a
\* second enter, while another member is not present.
C2_Witness ==
    /\ spaceLast.op = "enter"
    /\ spaceLast.err = AlreadyEntered
    /\ present[spaceLast.member] # Undefined
    /\ \E m \in Members : present[m] = Undefined

(***************************************************************************)
(* Claims about the constructor, checked under SpecCtor                    *)
(***************************************************************************)

\* A string has the form name:secret of /^([^:\s]+):([^:.\s]+)$/ with these
\* two parts.
SplitsAs(chars, name, secret) ==
    /\ chars = name \o <<":">> \o secret
    /\ name # <<>>
    /\ secret # <<>>
    /\ \A i \in 1 .. Len(name) : name[i] \notin { ":", " " }
    /\ \A i \in 1 .. Len(secret) : secret[i] \notin { ":", ".", " " }

\* A string has the form name:secret.
HasKeyForm(key) ==
    \E i \in 1 .. Len(key.chars) :
        SplitsAs(key.chars, SubSeq(key.chars, 1, i - 1),
                 SubSeq(key.chars, i + 1, Len(key.chars)))

\* clientId, if the option is present, is null or a string other than "*".
ClientIdOk(clientId) ==
    clientId.has =>
        \/ clientId.value = Null
        \/ (clientId.value.type = "string" /\ clientId.value.str # "*")

\* The outcome of a construction; emptyCounts says whether the empty string
\* counts as a key that is given.
CtorOutcome(emptyCounts) ==
    LET options == ctor.options
        made == ctor.instance
        given == /\ options.key # Undefined
                 /\ (emptyCounts \/ options.key.chars # <<>>)
        keyOk == given => HasKeyForm(options.key)
    IN  ctor.called =>
          /\ made.threw = Undefined <=>
                (options # Undefined /\ keyOk /\ ClientIdOk(options.clientId))
          /\ options = Undefined => made.threw = NoOptionsError
          /\ (options # Undefined /\ ~keyOk) => made.threw = InvalidKeyError
          /\ (options # Undefined /\ keyOk /\ ~ClientIdOk(options.clientId)) =>
                made.threw = ClientIdError
          /\ made.threw # Undefined =>
                (~made.http /\ ~made.auth /\ ~made.channels /\ ~made.push)
          /\ (made.threw = Undefined /\ given) =>
                SplitsAs(options.key.chars, made.keyName.chars, made.keySecret.chars)

\* C10 as stated: constructing succeeds exactly when options are provided,
\* the key, if given, has the form name:secret and clientId, if present, is
\* null or a string other than "*"; otherwise it throws the matching error
\* before any component is created; on success keyName and keySecret are the
\* two parts of the key.
C10_AsStated ==
    CtorOutcome(TRUE)

\* C10 amended: the same with "the key, if given and not the empty string".
C10_Constructor ==
    CtorOutcome(FALSE)

\* C10 witness: a client was constructed from a key of the form name:secret
\* whose name holds a dot.
C10_Witness ==
    /\ ctor.called
    /\ ctor.instance.threw = Undefined
    /\ ctor.instance.keyName = [type |-> "string", chars |-> <<".">>]
    /\ ctor.instance.push

(***************************************************************************)
(* Claims about time(), request() and the fallback hosts                   *)
(***************************************************************************)

\* The call a step took out of flight, and the call it put in flight.
Removed ==
    CHOOSE call \in BagToSet(pending) : CopiesIn(call, pending') < CopiesIn(call, pending)

Added ==
    CHOOSE call \in BagToSet(pending') : CopiesIn(call, pending') > CopiesIn(call, pending)

\* The step is a time() or request() call that reached http.do.
IsDispatch ==
    last'.op \in { "time", "request" } /\ pending' # pending

\* The step is the last response to a call.
IsDone ==
    last'.op \in { "timeDone", "requestDone" }

\* C3: time() on a client constructed without the Rest module throws and
\* issues no request.
C3_TimeWithoutRestThrows ==
    (last.op = "time" /\ "Rest" \notin modules[last.client]) =>
        /\ last.threw # Undefined
        /\ \A call \in BagToSet(pending) :
             ~(call.client = last.client /\ call.kind = "time")

UnsupportedInputs ==
    { "head", "TRACE" }

\* C5: a request call either fails at once or is handed to the HTTP layer,
\* never both and never neither; an unsupported method fails with ErrorInfo
\* 40500 / 405 and nothing is handed over; the last response to a request
\* calls the callback exactly once, with an error or with a response and
\* never with both or neither.
C5_RequestOneOutcome ==
    [][ /\ last'.op = "request" =>
             LET failed == last'.threw # Undefined
                 sent == pending' # pending
             IN  /\ failed # sent
                 /\ sent => InFlight' = InFlight + 1
                 /\ last'.method \in UnsupportedInputs =>
                      (last'.threw = ErrorInfo(40500, 405) /\ pending' = pending)
        /\ last'.op = "requestDone" =>
             /\ last'.out.callbacks = 1
             /\ last'.out.exc = Undefined
             /\ (last'.out.cbErr # Null) # (last'.out.cbVal # Undefined)
             /\ InFlight' = InFlight - 1
      ]_vars

\* C5 witness: a request with an unsupported method has failed with 40500 /
\* 405 while an earlier request was in flight.
C5_Witness ==
    /\ last.op = "request"
    /\ last.method = "TRACE"
    /\ last.threw = ErrorInfo(40500, 405)
    /\ InFlight = 1

C8_OffsetSetOnce ==
    [][ \A c \in Clients :
          serverTimeOffset[c] # Null => serverTimeOffset'[c] = serverTimeOffset[c]
      ]_vars

\* The time value a response carries: the first element of the array it
\* holds, 0 when it holds none.
CarriedTime(resp) ==
    IF resp.unpacked
    THEN IF Len(resp.res.items) > 0 THEN resp.res.items[1] ELSE 0
    ELSE LET s == resp.res.chars
         IN  IF Len(s) = 3 /\ s[1] = "[" /\ s[3] = "]" /\ \E n \in 0 .. 9 : Digit(n) = s[2]
             THEN CHOOSE n \in 0 .. 9 : Digit(n) = s[2]
             ELSE 0

\* C9: the last response to a time() call calls the callback exactly once;
\* with the error of the HTTP call when there is one, with ErrorInfo 50000 /
\* 500 when the response carries no time value, serverTimeOffset unchanged
\* in both cases; with (null, time) when it carries one, and only then is
\* serverTimeOffset set.
C9_TimeOutcome ==
    [][ last'.op = "timeDone" =>
          LET c == last'.client
              resp == last'.resp
              out == last'.out
              kept == serverTimeOffset'[c] = serverTimeOffset[c]
          IN  /\ out.callbacks = 1
              /\ resp.err # Null => (out.cbErr = resp.err /\ kept)
              /\ (resp.err = Null /\ CarriedTime(resp) = 0) =>
                    (out.cbErr = InternalError /\ kept)
              /\ (resp.err = Null /\ CarriedTime(resp) # 0) =>
                    /\ out.cbErr = Null
                    /\ out.cbVal = Num(CarriedTime(resp))
                    /\ serverTimeOffset'[c] = Num(CarriedTime(resp) - now)
      ]_vars

=============================================================================
